---- MODULE Spec2Model ----
(***************************************************************************)
(* Attendance backend (backend.py): the three API handlers                 *)
(*   get_all_employees, generate_attendance_sql, execute_generated_sql     *)
(* as a state machine over one request, together with the string checks    *)
(* the handlers apply to SQL text.  Text is a sequence of one-character    *)
(* strings, so that strip(), upper(), startswith() and `in` are computed   *)
(* character by character as Python computes them.  The state holds a      *)
(* statement by the name of its text (Statement); Text gives its           *)
(* characters, and every check is computed on those.                       *)
(***************************************************************************)
EXTENDS Integers, Sequences, FiniteSets, TLC

(***************************************************************************)
(* Bounds of the model.                                                    *)
(***************************************************************************)
\* longest all_employee_ids list of a draft-generation request
MaxIds == 3
\* longest sql_queries list of an execute-batch request
MaxBatch == 3

(***************************************************************************)
(* Python string operations on text.                                       *)
(***************************************************************************)
LowerLetters ==
    <<"a","b","c","d","e","f","g","h","i","j","k","l","m","n","o","p","q","r","s","t","u",
      "v","w","x","y","z">>

UpperLetters ==
    <<"A","B","C","D","E","F","G","H","I","J","K","L","M","N","O","P","Q","R","S","T","U",
      "V","W","X","Y","Z">>

\* the characters str.strip() removes
Whitespace == {" ", "\n", "\t", "\r"}

LowerSet == { LowerLetters[i] : i \in 1..26 }

UpperSet == { UpperLetters[i] : i \in 1..26 }

ToUpper == [c \in LowerSet |-> UpperLetters[CHOOSE i \in 1..26 : LowerLetters[i] = c]]

ToLower == [c \in UpperSet |-> LowerLetters[CHOOSE i \in 1..26 : UpperLetters[i] = c]]

\* str.upper()
Upper(s) ==
    LET mapped == [i \in 1..Len(s) |-> IF s[i] \in LowerSet THEN ToUpper[s[i]] ELSE s[i]]
    IN  SubSeq(mapped, 1, Len(s))

\* str.lower(), used only to write lower-case statement texts
Lower(s) ==
    LET mapped == [i \in 1..Len(s) |-> IF s[i] \in UpperSet THEN ToLower[s[i]] ELSE s[i]]
    IN  SubSeq(mapped, 1, Len(s))

RECURSIVE LStrip(_)
LStrip(s) == IF s # <<>> /\ Head(s) \in Whitespace THEN LStrip(Tail(s)) ELSE s

RECURSIVE RStrip(_)
RStrip(s) ==
    IF s # <<>> /\ s[Len(s)] \in Whitespace THEN RStrip(SubSeq(s, 1, Len(s) - 1)) ELSE s

\* str.strip()
Strip(s) == RStrip(LStrip(s))

\* s.startswith(p)
StartsWith(s, p) == Len(s) >= Len(p) /\ \A j \in 1..Len(p) : s[j] = p[j]

\* p in s
Contains(s, p) == \E i \in 0..(Len(s) - Len(p)) : \A j \in 1..Len(p) : s[i + j] = p[j]

(***************************************************************************)
(* The literals of the two checks.                                         *)
(***************************************************************************)
\* "INSERT INTO PMO_DAILY_ATTENDNACE", the prefix of the post-draft check
DRAFT_PREFIX ==
    <<"I","N","S","E","R","T"," ","I","N","T","O"," ","P","M","O","_","D","A","I","L","Y",
      "_","A","T","T","E","N","D","N","A","C","E">>

\* "INSERT INTO PMO_DAILY_ATTENDNACE (", the prefix of the pre-execution check
EXEC_PREFIX ==
    <<"I","N","S","E","R","T"," ","I","N","T","O"," ","P","M","O","_","D","A","I","L","Y",
      "_","A","T","T","E","N","D","N","A","C","E"," ","(">>

expected_columns ==
    << <<"E","M","P","L","O","Y","E","E","_","I","D">>,
       <<"E","M","P","L","O","Y","E","E","_","T","Y","P","E">>,
       <<"A","T","T","E","N","D","A","N","C","E","_","T","Y","P","E">>,
       <<"A","T","T","E","N","D","A","N","C","E","_","D","A","T","E">>,
       <<"A","T","T","E","N","D","A","N","C","E","_","T","I","M","E">>,
       <<"I","N","S","E","R","T","E","D","_","B","Y","_","I","D">> >>

expected_columns_pattern ==
    <<"E","M","P","L","O","Y","E","E","_","I","D",","," ","E","M","P","L","O","Y","E","E",
      "_","T","Y","P","E",","," ","A","T","T","E","N","D","A","N","C","E","_","T","Y","P",
      "E",","," ","A","T","T","E","N","D","A","N","C","E","_","D","A","T","E",","," ","A",
      "T","T","E","N","D","A","N","C","E","_","T","I","M","E",","," ","I","N","S","E","R",
      "T","E","D","_","B","Y","_","I","D">>

\* ") VALUES ("
VALUES_MARK ==
    <<")"," ","V","A","L","U","E","S"," ","(">>

dangerous_keywords ==
    << <<"D","E","L","E","T","E">>,
       <<"U","P","D","A","T","E">>,
       <<"D","R","O","P">>,
       <<"T","R","U","N","C","A","T","E">>,
       <<"A","L","T","E","R">>,
       <<"C","R","E","A","T","E">>,
       <<"G","R","A","N","T">>,
       <<"R","E","V","O","K","E">>,
       <<"S","E","L","E","C","T">>,
       <<"U","N","I","O","N">>,
       <<"J","O","I","N">>,
       <<"E","X","E","C">>,
       <<"E","X","E","C","U","T","E">>,
       <<"I","N","T","O"," ","O","U","T","F","I","L","E">>,
       <<"-","-">>,
       <<"/","*">>,
       <<"*","/">> >>

(***************************************************************************)
(* Statement texts: what the generation service may answer and what a      *)
(* client may post.  Each is written out from the literals above, so the   *)
(* checks decide them character by character.                              *)
(***************************************************************************)
\* an identity is a one-character string: its text is that character
IdText(emp_id) == <<emp_id>>

RECURSIVE JoinColumns(_)
JoinColumns(cols) ==
    IF Len(cols) = 0 THEN <<>>
    ELSE IF Len(cols) = 1 THEN cols[1]
    ELSE cols[1] \o <<",", " ">> \o JoinColumns(Tail(cols))

TypeText(attendance_type) ==
    IF attendance_type = "Present"
    THEN <<"P","r","e","s","e","n","t">>
    ELSE <<"A","b","s","e","n","t">>

\* "'<emp_id>', 'Trainee', '<attendance_type>', '2025-06-05', '09:00:00', '1483');"
ValuesText(emp_id, attendance_type) ==
    <<"'">> \o IdText(emp_id) \o <<"'",","," ","'","T","r","a","i","n","e","e","'",","," ","'">>
    \o TypeText(attendance_type)
    \o <<"'",","," ","'","2","0","2","5","-","0","6","-","0","5","'",","," ","'","0","9",":",
         "0","0",":","0","0","'",","," ","'","1","4","8","3","'",")",";">>

\* the example statement of the prompt
Canonical(emp_id, attendance_type) ==
    EXEC_PREFIX \o expected_columns_pattern \o VALUES_MARK \o ValuesText(emp_id, attendance_type)

RawText(variant, emp_id, attendance_type) ==
    CASE variant = "canonical" -> Canonical(emp_id, attendance_type)
      [] variant = "lower_padded" ->
            <<" ", " ">> \o Lower(Canonical(emp_id, attendance_type)) \o <<"\n">>
      [] variant = "no_paren_space" ->
            DRAFT_PREFIX \o <<"(">> \o expected_columns_pattern \o VALUES_MARK
            \o ValuesText(emp_id, attendance_type)
      [] variant = "reordered" ->
            EXEC_PREFIX
            \o JoinColumns(<<expected_columns[2], expected_columns[1]>> \o SubSeq(expected_columns, 3, 6))
            \o VALUES_MARK \o ValuesText(emp_id, attendance_type)
      [] variant = "tight_values" ->
            EXEC_PREFIX \o expected_columns_pattern \o <<")"," ","V","A","L","U","E","S","(">>
            \o ValuesText(emp_id, attendance_type)
      [] variant = "missing_column" ->
            EXEC_PREFIX \o JoinColumns(SubSeq(expected_columns, 1, 4) \o SubSeq(expected_columns, 6, 6))
            \o VALUES_MARK \o ValuesText(emp_id, attendance_type)
      [] variant = "injected" ->
            Canonical(emp_id, attendance_type)
            \o <<" ","d","r","o","p"," ","t","a","b","l","e"," ","e","m","p","l","o","y","e","e",";">>
      [] variant = "prose" ->
            <<"H","e","r","e"," ","i","s"," ","t","h","e"," ","q","u","e","r","y",":"," ">>
            \o Canonical(emp_id, attendance_type)

\* a statement, named by the shape of its text and the values in it
Statement(variant, emp_id, attendance_type) ==
    [variant |-> variant, emp_id |-> emp_id, attendance_type |-> attendance_type,
     trimmed |-> FALSE]

NoStatement == [variant |-> "none", emp_id |-> "", attendance_type |-> "", trimmed |-> FALSE]

\* the characters of a statement
Text(stmt) ==
    IF stmt.variant = "none" THEN <<>>
    ELSE IF stmt.trimmed
    THEN Strip(RawText(stmt.variant, stmt.emp_id, stmt.attendance_type))
    ELSE RawText(stmt.variant, stmt.emp_id, stmt.attendance_type)

\* content.strip(): the statement whose text is Strip(Text(stmt))
Stripped(stmt) == [stmt EXCEPT !.trimmed = TRUE]

(***************************************************************************)
(* The post-draft check of generate_attendance_sql.                        *)
(***************************************************************************)
\* the check without .upper()
DraftNormalize_asis(generated_sql) == Text(generated_sql)

DraftNormalize(generated_sql) == Upper(Text(generated_sql))

DraftAccepts(generated_sql) ==
    LET normalized_sql == DraftNormalize(generated_sql)
    IN  /\ StartsWith(normalized_sql, DRAFT_PREFIX)
        /\ \A k \in 1..Len(expected_columns) : Contains(normalized_sql, expected_columns[k])

(***************************************************************************)
(* The pre-execution check of execute_generated_sql.                       *)
(***************************************************************************)
ExecNormalize(sql_query) == Upper(Strip(Text(sql_query)))

MatchesExpectedInsert(normalized_query) ==
    /\ StartsWith(normalized_query, EXEC_PREFIX)
    /\ Contains(normalized_query, expected_columns_pattern)
    /\ Contains(normalized_query, VALUES_MARK)

\* the denylist cut short after its first keyword
HasDangerousKeyword_first(normalized_query) ==
    Contains(normalized_query, dangerous_keywords[1])

HasDangerousKeyword(normalized_query) ==
    \E k \in 1..Len(dangerous_keywords) : Contains(normalized_query, dangerous_keywords[k])

NoException == [type |-> "none", msg |-> "", sql |-> NoStatement]

\* the ValueError the loop body raises for sql_query, or NoException
QueryError(sql_query) ==
    LET normalized_query == ExecNormalize(sql_query)
    IN  IF ~MatchesExpectedInsert(normalized_query)
        THEN [type |-> "ValueError",
              msg  |-> "One of the queries does not match the expected INSERT into PMO_DAILY_ATTENDNACE with all required columns: {sql_query}",
              sql  |-> sql_query]
        ELSE IF HasDangerousKeyword(normalized_query)
        THEN [type |-> "ValueError",
              msg  |-> "One of the queries contains disallowed keywords, indicating a potential security risk: {sql_query}",
              sql  |-> sql_query]
        ELSE NoException

(***************************************************************************)
(* Requests.                                                               *)
(***************************************************************************)
\* Python's None among the scalar values of a body
None == "None"

\* bool(x) of a list
TruthyList(x) == x # <<>>

\* bool(x) of a string or None
TruthyScalar(x) == x # None /\ x # ""

\* data.get(key, default) on a JSON object
Get(data, key, default) == IF key \in DOMAIN data THEN data[key] ELSE default

Ids == {"7", "8"}

RECURSIVE SeqsUpTo(_, _)
SeqsUpTo(S, n) ==
    IF n = 0 THEN { <<>> }
    ELSE LET shorter == SeqsUpTo(S, n - 1)
         IN  shorter \cup { Append(s, x) : s \in { t \in shorter : Len(t) = n - 1 }, x \in S }

IdLists == SeqsUpTo(Ids, MaxIds)

\* the present_employee_ids lists: identities in any order, none twice
PresentLists ==
    { p \in SeqsUpTo(Ids, Cardinality(Ids)) : \A i, j \in 1..Len(p) : p[i] = p[j] => i = j }

MeetingTime == "09:00:00"

MeetingDate == "2025-06-05"

InsertedBy == "1483"

EmptyObject == [k \in {} |-> ""]

Field(has, key, value) == IF has THEN [k \in {key} |-> value] ELSE EmptyObject

\* the JSON objects a client posts to /generate_attendance_sql
GenerateBodies ==
    { Field(hp, "present_employee_ids", p) @@ Field(ha, "all_employee_ids", a)
      @@ Field(ht, "meeting_time_str", MeetingTime) @@ Field(hd, "meeting_date", MeetingDate)
      @@ Field(hb, "inserted_by_id", b) :
        hp \in BOOLEAN, ha \in BOOLEAN, ht \in BOOLEAN, hd \in BOOLEAN, hb \in BOOLEAN,
        p \in PresentLists, a \in IdLists, b \in { "", InsertedBy } }

\* the statements a client posts to /execute_generated_sql
ClientStatements ==
    { Statement("canonical", "7", "Present"),
      Statement("lower_padded", "8", "Absent"),
      Statement("no_paren_space", "7", "Present"),
      Statement("reordered", "7", "Present"),
      Statement("tight_values", "8", "Absent"),
      Statement("missing_column", "8", "Absent"),
      Statement("injected", "7", "Present") }

ExecuteBodies ==
    { Field(hq, "sql_queries", q) : hq \in BOOLEAN, q \in SeqsUpTo(ClientStatements, MaxBatch) }

\* request.json: a JSON object, a JSON value that is no object, or no JSON at all
JsonObject(data) == [kind |-> "object", data |-> data]

NotAnObject == [kind |-> "not_object", data |-> EmptyObject]

NoJson == [kind |-> "no_json", data |-> EmptyObject]

(***************************************************************************)
(* State.                                                                  *)
(***************************************************************************)
VARIABLES
    pc,             \* position in the handler
    handler,        \* the handler serving the request
    request_json,   \* request.json
    response,       \* what the handler returned
    escaped,        \* the exception that left the handler uncaught, or "none"
    conn,           \* "None", "open", "lost" or "closed"
    store,          \* the committed rows of the attendance table, as their statements
    store_before,   \* store when the request arrived
    pending,        \* the rows of the connection's open transaction
    dbops,          \* the calls made on the store, in order
    idx,            \* position of the loop
    generated_sqls, \* generate_attendance_sql's list
    calls,          \* the generation-service calls made
    exc,            \* the exception the except clause handles
    failure         \* where the request failed: [at, kind]

vars ==
    <<pc, handler, request_json, response, escaped, conn, store, store_before, pending,
      dbops, idx, generated_sqls, calls, exc, failure>>

NoResponse == [status |-> 0, body |-> EmptyObject]

NoFailure == [at |-> 0, kind |-> "none"]

\* jsonify(body), status
Respond(status, body) == [status |-> status, body |-> body]

\* the attendance table before the request: a row of an earlier batch
InitialStores == { << Statement("canonical", "9", "Present") >> }

Init ==
    /\ pc = "idle"
    /\ handler = "none"
    /\ request_json = NoJson
    /\ response = NoResponse
    /\ escaped = "none"
    /\ conn = "None"
    /\ store \in InitialStores
    /\ store_before = store
    /\ pending = <<>>
    /\ dbops = <<>>
    /\ idx = 0
    /\ generated_sqls = <<>>
    /\ calls = <<>>
    /\ exc = NoException
    /\ failure = NoFailure

\* conn.is_connected()
IsConnected(c) == c = "open"

\* a finally clause that closes nothing
FinallyClose_never(c) == c

\* finally: if conn and conn.is_connected(): conn.close()
FinallyClose(c) == IF c # "None" /\ IsConnected(c) THEN "closed" ELSE c

DbOp(op, sql) == [op |-> op, sql |-> sql]

(***************************************************************************)
(* GET /get_all_employees                                                  *)
(***************************************************************************)
\* the rows of SELECT id, name FROM employee ORDER BY name ASC
employees ==
    << [id |-> "8", name |-> "Asha"], [id |-> "7", name |-> "Ravi"] >>

ConnectFailedCR ==
    Respond(500, [error |-> [msg |-> "Failed to connect to the CR database '{DB_NAME_CR}'. Check backend logs for connection details.",
                             e   |-> NoException]])

FetchFailed(e) ==
    Respond(500, [error |-> [msg |-> "An internal server error occurred while fetching employees: {str(e)}",
                             e   |-> e]])

StoreError == [type |-> "mysql.connector.Error", msg |-> "{err}", sql |-> NoStatement]

ConnectionLost == [type |-> "mysql.connector.OperationalError", msg |-> "Lost connection to MySQL server", sql |-> NoStatement]

\* conn = get_db_connection(DB_NAME_CR); if conn is None: return ..., 500
GetAllEmployeesConnect ==
    /\ pc = "idle"
    /\ handler' = "get_all_employees"
    /\ \E connected \in BOOLEAN :
          IF connected
          THEN /\ conn' = "open"
               /\ dbops' = Append(dbops, DbOp("connect", NoStatement))
               /\ pc' = "dir_query"
               /\ UNCHANGED response
          ELSE /\ response' = ConnectFailedCR
               /\ dbops' = Append(dbops, DbOp("connect_failed", NoStatement))
               /\ pc' = "dir_finally"
               /\ UNCHANGED conn
    /\ UNCHANGED <<request_json, escaped, store, store_before, pending, idx, generated_sqls,
                   calls, exc, failure>>

\* with conn.cursor(...) as cur: cur.execute(...); employees = cur.fetchall(); return ..., 200
GetAllEmployeesQuery ==
    /\ pc = "dir_query"
    /\ dbops' = Append(dbops, DbOp("select", NoStatement))
    /\ \E outcome \in {"ok", "error", "lost"} :
          CASE outcome = "ok" ->
                /\ response' = Respond(200, [employees |-> employees])
                /\ UNCHANGED <<conn, exc, failure>>
            [] outcome = "error" ->
                /\ exc' = StoreError
                /\ failure' = [at |-> 0, kind |-> "query"]
                /\ response' = FetchFailed(StoreError)
                /\ UNCHANGED conn
            [] outcome = "lost" ->
                /\ conn' = "lost"
                /\ exc' = ConnectionLost
                /\ failure' = [at |-> 0, kind |-> "lost"]
                /\ response' = FetchFailed(ConnectionLost)
    /\ pc' = "dir_finally"
    /\ UNCHANGED <<handler, request_json, escaped, store, store_before, pending, idx,
                   generated_sqls, calls>>

\* finally: if conn and conn.is_connected(): conn.close()
GetAllEmployeesFinally ==
    /\ pc = "dir_finally"
    /\ conn' = FinallyClose(conn)
    /\ dbops' = IF conn' # conn THEN Append(dbops, DbOp("close", NoStatement)) ELSE dbops
    /\ pc' = "done"
    /\ UNCHANGED <<handler, request_json, response, escaped, store, store_before, pending,
                   idx, generated_sqls, calls, exc, failure>>

(***************************************************************************)
(* POST /generate_attendance_sql                                           *)
(***************************************************************************)
present_employee_ids == Get(request_json.data, "present_employee_ids", <<>>)

all_employee_ids == Get(request_json.data, "all_employee_ids", <<>>)

meeting_time == Get(request_json.data, "meeting_time_str", None)

meeting_date == Get(request_json.data, "meeting_date", None)

inserted_by_id == Get(request_json.data, "inserted_by_id", None)

\* the check with inserted_by_id left out
RequiredFieldsPresent_no_by_id(all_ids, present_ids, time, date, by_id) ==
    /\ TruthyList(all_ids)
    /\ TruthyList(present_ids)
    /\ TruthyScalar(time)
    /\ TruthyScalar(date)

\* all([all_employee_ids, present_employee_ids, meeting_time, meeting_date, inserted_by_id])
RequiredFieldsPresent(all_ids, present_ids, time, date, by_id) ==
    /\ TruthyList(all_ids)
    /\ TruthyList(present_ids)
    /\ TruthyScalar(time)
    /\ TruthyScalar(date)
    /\ TruthyScalar(by_id)

MissingFields ==
    Respond(400, [error |-> [msg |-> "All fields (all_employee_ids, present_employee_ids, date, time, inserted by ID) are required.",
                             e   |-> NoException]])

\* 'Present' if emp_id in present_employee_ids else 'Absent'
AttendanceType(emp_id, present_ids) ==
    IF \E i \in 1..Len(present_ids) : present_ids[i] = emp_id THEN "Present" ELSE "Absent"

\* the values the prompt carries to the generation service
Prompt(emp_id, employee_type, attendance_type, date, time, by_id) ==
    [emp_id |-> emp_id, employee_type |-> employee_type, attendance_type |-> attendance_type,
     meeting_date |-> date, meeting_time |-> time, inserted_by_id |-> by_id]

ServiceError == [type |-> "groq.APIError", msg |-> "{service error}", sql |-> NoStatement]

InvalidDraft(generated_sql) ==
    [type |-> "ValueError",
     msg  |-> "Groq generated an invalid SQL query. It must be an INSERT into PMO_DAILY_ATTENDNACE and include all required columns. Generated: {generated_sql}",
     sql  |-> generated_sql]

\* the error response without the employee it is about
DraftFailed_anonymous(emp_id, e) ==
    Respond(500, [error |-> [msg |-> "Failed to generate SQL query: {str(e)}",
                             emp_id |-> "",
                             e   |-> e]])

\* return jsonify({"error": f"Failed to generate SQL query for employee {emp_id}: {str(e)}"}), 500
DraftFailed(emp_id, e) ==
    Respond(500, [error |-> [msg |-> "Failed to generate SQL query for employee {emp_id}: {str(e)}",
                             emp_id |-> emp_id,
                             e   |-> e]])

\* what chat_completion.choices[0].message.content may be
ServiceVariants ==
    {"canonical", "lower_padded", "no_paren_space", "injected", "missing_column", "prose"}

\* data = request.json ... if not all([...]): return ..., 400
GenerateStart ==
    /\ pc = "idle"
    /\ handler' = "generate_attendance_sql"
    /\ \E json \in {NotAnObject, NoJson} \cup { JsonObject(d) : d \in GenerateBodies } :
          /\ request_json' = json
          /\ IF json.kind # "object"
             THEN /\ escaped' \in IF json.kind = "no_json"
                                  THEN {"HTTPException", "AttributeError"}
                                  ELSE {"AttributeError"}
                  /\ pc' = "done"
                  /\ UNCHANGED <<response, idx>>
             ELSE IF ~RequiredFieldsPresent(Get(json.data, "all_employee_ids", <<>>),
                                           Get(json.data, "present_employee_ids", <<>>),
                                           Get(json.data, "meeting_time_str", None),
                                           Get(json.data, "meeting_date", None),
                                           Get(json.data, "inserted_by_id", None))
             THEN /\ response' = MissingFields
                  /\ pc' = "done"
                  /\ UNCHANGED <<escaped, idx>>
             ELSE /\ pc' = "gen_loop"
                  /\ idx' = 1
                  /\ UNCHANGED <<response, escaped>>
    /\ UNCHANGED <<conn, store, store_before, pending, dbops, generated_sqls, calls, exc,
                   failure>>

\* one iteration of: for emp_id in all_employee_ids
GenerateFor ==
    /\ pc = "gen_loop"
    /\ idx <= Len(all_employee_ids)
    /\ LET emp_id == all_employee_ids[idx]
           employee_type == "Trainee"
           attendance_type == AttendanceType(emp_id, present_employee_ids)
       IN  /\ calls' = Append(calls, Prompt(emp_id, employee_type, attendance_type,
                                            meeting_date, meeting_time, inserted_by_id))
           /\ \/ \* groq_client.chat.completions.create raises
                 /\ exc' = ServiceError
                 /\ failure' = [at |-> idx, kind |-> "service"]
                 /\ response' = DraftFailed(emp_id, ServiceError)
                 /\ pc' = "done"
                 /\ UNCHANGED <<generated_sqls, idx>>
              \/ \E variant \in ServiceVariants :
                    LET content == Statement(variant, emp_id, attendance_type)
                        generated_sql == Stripped(content)
                    IN  IF ~DraftAccepts(generated_sql)
                        THEN /\ exc' = InvalidDraft(generated_sql)
                             /\ failure' = [at |-> idx, kind |-> "rejected"]
                             /\ response' = DraftFailed(emp_id, InvalidDraft(generated_sql))
                             /\ pc' = "done"
                             /\ UNCHANGED <<generated_sqls, idx>>
                        ELSE /\ generated_sqls' = Append(generated_sqls, generated_sql)
                             /\ idx' = idx + 1
                             /\ UNCHANGED <<pc, response, exc, failure>>
    /\ UNCHANGED <<handler, request_json, escaped, conn, store, store_before, pending, dbops>>

\* return jsonify({"sql_queries": generated_sqls}), 200
GenerateReturn ==
    /\ pc = "gen_loop"
    /\ idx > Len(all_employee_ids)
    /\ response' = Respond(200, [sql_queries |-> generated_sqls])
    /\ pc' = "done"
    /\ UNCHANGED <<handler, request_json, escaped, conn, store, store_before, pending, dbops,
                   idx, generated_sqls, calls, exc, failure>>

(***************************************************************************)
(* POST /execute_generated_sql                                             *)
(***************************************************************************)
sql_queries == Get(request_json.data, "sql_queries", <<>>)

\* the handler without its emptiness check
NoQueries_unchecked(queries) == FALSE

\* not sql_queries
NoQueries(queries) == ~TruthyList(queries)

NoQueriesProvided ==
    Respond(400, [error |-> [msg |-> "No SQL queries provided for execution", e |-> NoException]])

ConnectFailedTRN ==
    Respond(500, [error |-> [msg |-> "Failed to connect to the attendance database '{DB_NAME_NRKINDEX_TRN}'. Check backend logs for connection details.",
                             e   |-> NoException]])

\* the error response without the exception's text
ExecutionFailed_generic(e) ==
    Respond(500, [error |-> [msg |-> "Error executing queries. Please check the generated SQL syntax and data.",
                             e   |-> NoException]])

\* return jsonify({"error": f"Error executing queries: {str(e)}. Please check ..."}), 500
ExecutionFailed(e) ==
    Respond(500, [error |-> [msg |-> "Error executing queries: {str(e)}. Please check the generated SQL syntax and data.",
                             e   |-> e]])

Executed(n) ==
    Respond(200, [message |-> [msg |-> "Successfully executed {len(sql_queries)} SQL queries. Attendance recorded.",
                               count |-> n]])

\* a connection opened with autocommit=True
Autocommit_on == TRUE

\* mysql.connector.connect(...) is given no autocommit argument
Autocommit == FALSE

\* sql_queries = request.json.get('sql_queries', []); if not sql_queries: return ..., 400
ExecuteStart ==
    /\ pc = "idle"
    /\ handler' = "execute_generated_sql"
    /\ \E json \in {NotAnObject, NoJson} \cup { JsonObject(d) : d \in ExecuteBodies } :
          /\ request_json' = json
          /\ IF json.kind # "object"
             THEN /\ escaped' \in IF json.kind = "no_json"
                                  THEN {"HTTPException", "AttributeError"}
                                  ELSE {"AttributeError"}
                  /\ pc' = "done"
                  /\ UNCHANGED response
             ELSE IF NoQueries(Get(json.data, "sql_queries", <<>>))
             THEN /\ response' = NoQueriesProvided
                  /\ pc' = "done"
                  /\ UNCHANGED escaped
             ELSE /\ pc' = "exec_connect"
                  /\ UNCHANGED <<response, escaped>>
    /\ UNCHANGED <<conn, store, store_before, pending, dbops, idx, generated_sqls, calls, exc,
                   failure>>

\* conn = get_db_connection(DB_NAME_NRKINDEX_TRN); if conn is None: return ..., 500
ExecuteConnect ==
    /\ pc = "exec_connect"
    /\ \E connected \in BOOLEAN :
          IF connected
          THEN /\ conn' = "open"
               /\ dbops' = Append(dbops, DbOp("connect", NoStatement))
               /\ pc' = "exec_cursor"
               /\ UNCHANGED <<response, failure>>
          ELSE /\ response' = ConnectFailedTRN
               /\ dbops' = Append(dbops, DbOp("connect_failed", NoStatement))
               /\ failure' = [at |-> 0, kind |-> "connect"]
               /\ pc' = "exec_finally"
               /\ UNCHANGED conn
    /\ UNCHANGED <<handler, request_json, escaped, store, store_before, pending, idx,
                   generated_sqls, calls, exc>>

\* with conn.cursor() as cur:
ExecuteCursor ==
    /\ pc = "exec_cursor"
    /\ \E outcome \in {"ok", "lost"} :
          IF outcome = "ok"
          THEN /\ idx' = 1
               /\ pc' = "exec_loop"
               /\ UNCHANGED <<conn, exc, failure>>
          ELSE /\ conn' = "lost"
               /\ exc' = ConnectionLost
               /\ failure' = [at |-> 0, kind |-> "lost"]
               /\ pc' = "exec_except"
               /\ UNCHANGED idx
    /\ UNCHANGED <<handler, request_json, response, escaped, store, store_before, pending,
                   dbops, generated_sqls, calls>>

\* one iteration of: for sql_query in sql_queries
ExecuteStatement ==
    /\ pc = "exec_loop"
    /\ idx <= Len(sql_queries)
    /\ LET sql_query == sql_queries[idx]
           invalid == QueryError(sql_query)
       IN  IF invalid # NoException
           THEN /\ exc' = invalid
                /\ failure' = [at |-> idx, kind |-> "validation"]
                /\ pc' = "exec_except"
                /\ UNCHANGED <<conn, store, pending, dbops, idx>>
           ELSE \* cur.execute(sql_query)
                /\ dbops' = Append(dbops, DbOp("execute", sql_query))
                /\ \E outcome \in {"ok", "error", "lost"} :
                      CASE outcome = "ok" ->
                            /\ IF Autocommit
                               THEN store' = Append(store, sql_query) /\ UNCHANGED pending
                               ELSE pending' = Append(pending, sql_query) /\ UNCHANGED store
                            /\ idx' = idx + 1
                            /\ UNCHANGED <<conn, exc, failure, pc>>
                        [] outcome = "error" ->
                            /\ exc' = StoreError
                            /\ failure' = [at |-> idx, kind |-> "store"]
                            /\ pc' = "exec_except"
                            /\ UNCHANGED <<conn, store, pending, idx>>
                        [] outcome = "lost" ->
                            \* the server ends the session and discards its open transaction
                            /\ conn' = "lost"
                            /\ pending' = <<>>
                            /\ exc' = ConnectionLost
                            /\ failure' = [at |-> idx, kind |-> "lost"]
                            /\ pc' = "exec_except"
                            /\ UNCHANGED <<store, idx>>
    /\ UNCHANGED <<handler, request_json, response, escaped, store_before, generated_sqls,
                   calls>>

\* conn.commit(); return jsonify({"message": ...}), 200
ExecuteCommit ==
    /\ pc = "exec_loop"
    /\ idx > Len(sql_queries)
    /\ dbops' = Append(dbops, DbOp("commit", NoStatement))
    /\ \E outcome \in {"ok", "error", "lost"} :
          CASE outcome = "ok" ->
                /\ store' = store \o pending
                /\ pending' = <<>>
                /\ response' = Executed(Len(sql_queries))
                /\ pc' = "exec_finally"
                /\ UNCHANGED <<conn, exc, failure>>
            [] outcome = "error" ->
                /\ exc' = StoreError
                /\ failure' = [at |-> 0, kind |-> "commit"]
                /\ pc' = "exec_except"
                /\ UNCHANGED <<conn, store, pending, response>>
            [] outcome = "lost" ->
                /\ conn' = "lost"
                /\ pending' = <<>>
                /\ exc' = ConnectionLost
                /\ failure' = [at |-> 0, kind |-> "lost"]
                /\ pc' = "exec_except"
                /\ UNCHANGED <<store, response>>
    /\ UNCHANGED <<handler, request_json, escaped, store_before, idx, generated_sqls, calls>>

\* except Exception as e: if conn and conn.is_connected(): conn.rollback(); return ..., 500
ExecuteExcept ==
    /\ pc = "exec_except"
    /\ IF conn # "None" /\ IsConnected(conn)
       THEN /\ pending' = <<>>
            /\ dbops' = Append(dbops, DbOp("rollback", NoStatement))
       ELSE UNCHANGED <<pending, dbops>>
    /\ response' = ExecutionFailed(exc)
    /\ pc' = "exec_finally"
    /\ UNCHANGED <<handler, request_json, escaped, conn, store, store_before, idx,
                   generated_sqls, calls, exc, failure>>

\* finally: if conn and conn.is_connected(): conn.close()
ExecuteFinally ==
    /\ pc = "exec_finally"
    /\ conn' = FinallyClose(conn)
    /\ dbops' = IF conn' # conn THEN Append(dbops, DbOp("close", NoStatement)) ELSE dbops
    \* closing a session discards what it has not committed
    /\ pending' = IF conn' = "closed" THEN <<>> ELSE pending
    /\ pc' = "done"
    /\ UNCHANGED <<handler, request_json, response, escaped, store, store_before, idx,
                   generated_sqls, calls, exc, failure>>

Next ==
    \/ GetAllEmployeesConnect
    \/ GetAllEmployeesQuery
    \/ GetAllEmployeesFinally
    \/ GenerateStart
    \/ GenerateFor
    \/ GenerateReturn
    \/ ExecuteStart
    \/ ExecuteConnect
    \/ ExecuteCursor
    \/ ExecuteStatement
    \/ ExecuteCommit
    \/ ExecuteExcept
    \/ ExecuteFinally

Spec == Init /\ [][Next]_vars

(***************************************************************************)
(* Properties.                                                             *)
(***************************************************************************)
Done == pc = "done"

ExecuteRequest == handler = "execute_generated_sql" /\ request_json.kind = "object"

GenerateRequest == handler = "generate_attendance_sql" /\ request_json.kind = "object"

OpCount(op) == Len(SelectSeq(dbops, LAMBDA o : o.op = op))

\* C1: execute-batch is all-or-nothing.  While a non-empty batch is handled the
\* attendance table holds the rows it held before, or those and the rows of every
\* statement of the batch, never a part of the batch; when the request has finished
\* the table holds the whole batch and the response is 200, or it holds none of it
\* and the response is 500, and no uncommitted row is left.
C1_AllOrNothing ==
    (ExecuteRequest /\ sql_queries # <<>>) =>
        /\ store \in {store_before, store_before \o sql_queries}
        /\ Done =>
              /\ pending = <<>>
              /\ \/ store = store_before \o sql_queries /\ response.status = 200
                 \/ store = store_before /\ response.status = 500

\* C1 witness: a batch of three whose third statement fails in the store after two
\* inserts, rolled back, finished with 500.
C1_Witness ==
    /\ ExecuteRequest /\ Done
    /\ Len(sql_queries) = 3
    /\ failure = [at |-> 3, kind |-> "store"]
    /\ OpCount("execute") = 3
    /\ OpCount("rollback") = 1
    /\ store = store_before
    /\ response.status = 500

\* a state where the commit failed and one where the connection was lost mid-batch
C1_CommitFailed ==
    ExecuteRequest /\ Done /\ failure.kind = "commit" /\ store = store_before

C1_ConnectionLost ==
    ExecuteRequest /\ Done /\ failure = [at |-> 2, kind |-> "lost"] /\ conn = "lost"

\* membership of an identity in a list of identities
InList(x, list) == \E i \in 1..Len(list) : list[i] = x

\* C2: for every non-empty list A and every P within A supplied as
\* present_employee_ids, with time, date and inserted_by_id supplied and no draft
\* failing, the draft-generation request returns 200 with |A| statements, the i-th
\* drafted for A[i] with attendance type Present iff A[i] is in P.
C2_DraftsForEverySubset ==
    ( /\ GenerateRequest /\ Done
      /\ all_employee_ids # <<>>
      /\ "present_employee_ids" \in DOMAIN request_json.data
      /\ \A i \in 1..Len(present_employee_ids) : InList(present_employee_ids[i], all_employee_ids)
      /\ TruthyScalar(meeting_time) /\ TruthyScalar(meeting_date)
      /\ TruthyScalar(inserted_by_id)
      /\ failure = NoFailure )
    => /\ response.status = 200
       /\ Len(response.body.sql_queries) = Len(all_employee_ids)
       /\ Len(calls) = Len(all_employee_ids)
       /\ \A i \in 1..Len(all_employee_ids) :
             /\ calls[i].emp_id = all_employee_ids[i]
             /\ calls[i].attendance_type = "Present"
                   <=> InList(all_employee_ids[i], present_employee_ids)

\* the statements a check has been applied to in this request: the drafts kept, the
\* queries the loop has passed, and the statement a ValueError was raised for
TextsChecked ==
    { generated_sqls[i] : i \in 1..Len(generated_sqls) }
    \cup { sql_queries[i] : i \in 1..(IF handler = "execute_generated_sql" THEN idx - 1 ELSE 0) }
    \cup (IF exc.type = "ValueError" THEN {exc.sql} ELSE {})

ExecAccepts(stmt) == QueryError(stmt) = NoException

\* every statement text of the model: what a client posts and what the drafter keeps
StatementTexts ==
    ClientStatements
    \cup { Stripped(Statement(variant, emp_id, attendance_type)) :
              variant \in ServiceVariants, emp_id \in Ids, attendance_type \in {"Present", "Absent"} }

\* the verdicts of the two checks on every statement text
DraftVerdict == [stmt \in StatementTexts |-> DraftAccepts(Stripped(stmt))] @@ EmptyObject

ExecVerdict == [stmt \in StatementTexts |-> ExecAccepts(stmt)] @@ EmptyObject

\* C3 as stated: the post-draft check and the pre-execution check accept the same
\* statement texts.
C3_ChecksAgree ==
    \A text \in TextsChecked : DraftVerdict[text] <=> ExecVerdict[text]

\* C3 amended: every statement text the pre-execution check accepts is, once
\* trimmed as the drafter trims it, accepted by the post-draft check.
C3_ExecAcceptedIsDraftAccepted ==
    \A text \in TextsChecked : ExecVerdict[text] => DraftVerdict[text]

\* C3 witness: a finished draft request whose statements passed the post-draft check,
\* one of which the pre-execution check accepts and one of which it rejects.
C3_Witness ==
    /\ GenerateRequest /\ Done /\ response.status = 200
    /\ \E i \in 1..Len(generated_sqls) : ExecVerdict[generated_sqls[i]]
    /\ \E i \in 1..Len(generated_sqls) : ~ExecVerdict[generated_sqls[i]]

\* the four validator rules on a trimmed, upper-cased text
ValidatorRules(text) ==
    /\ StartsWith(text, EXEC_PREFIX)
    /\ Contains(text, expected_columns_pattern)
    /\ Contains(text, VALUES_MARK)
    /\ \A k \in 1..Len(dangerous_keywords) : ~Contains(text, dangerous_keywords[k])

MissesColumn(text) ==
    \E k \in 1..Len(expected_columns) : ~Contains(Upper(text), expected_columns[k])

HasDenylistedToken(text) ==
    \E k \in 1..Len(dangerous_keywords) : Contains(Upper(text), dangerous_keywords[k])

\* the rules' verdicts on every statement a client posts
SatisfiesRules ==
    [stmt \in ClientStatements |-> ValidatorRules(Upper(Strip(Text(stmt))))] @@ EmptyObject

Forbidden ==
    [stmt \in ClientStatements |-> MissesColumn(Text(stmt)) \/ HasDenylistedToken(Text(stmt))]
    @@ EmptyObject

LowerCaseToken ==
    [stmt \in ClientStatements |->
        /\ HasDenylistedToken(Text(stmt))
        /\ \A k \in 1..Len(dangerous_keywords) : ~Contains(Text(stmt), dangerous_keywords[k])]
    @@ EmptyObject

\* C4: every statement handed to cur.execute satisfies the four validator rules on
\* its trimmed, upper-cased text; a statement of the batch that misses a column or
\* holds a denylisted token in any letter case is never handed to cur.execute, and
\* the finished request answers 500.
C4_OnlyValidatedExecuted ==
    /\ \A i \in 1..Len(dbops) : dbops[i].op = "execute" => SatisfiesRules[dbops[i].sql]
    /\ ExecuteRequest =>
          \A i \in 1..Len(sql_queries) :
              Forbidden[sql_queries[i]] =>
                  /\ \A j \in 1..Len(dbops) :
                        ~(dbops[j].op = "execute" /\ dbops[j].sql = sql_queries[i])
                  /\ Done => response.status = 500

\* C4 witness: a valid statement was executed, then a statement with a lower-case
\* denylisted token was refused.
C4_Witness ==
    /\ ExecuteRequest /\ Done
    /\ failure = [at |-> 2, kind |-> "validation"]
    /\ LowerCaseToken[sql_queries[2]]
    /\ OpCount("execute") = 1
    /\ response.status = 500

\* C5: drafting is sequential and fail-fast.  The calls made are for the identities
\* in the caller's order, one per position; once the draft at position k fails, the
\* request is finished with 500 naming that identity, the response holds no
\* statements, exactly k calls were made and no further call can be made.
C5_SequentialFailFast ==
    GenerateRequest =>
        /\ Len(calls) <= Len(all_employee_ids)
        /\ \A i \in 1..Len(calls) : calls[i].emp_id = all_employee_ids[i]
        /\ pc = "gen_loop" => Len(calls) = idx - 1 /\ Len(generated_sqls) = idx - 1
        /\ failure.at # 0 =>
              /\ Done
              /\ response.status = 500
              /\ DOMAIN response.body = {"error"}
              /\ response.body.error.emp_id = all_employee_ids[failure.at]
              /\ Len(calls) = failure.at
              /\ ~ENABLED GenerateFor

\* C5 witness: three identities, the draft for the second rejected after the first
\* was accepted.
C5_Witness ==
    /\ GenerateRequest /\ Done
    /\ Len(all_employee_ids) = 3
    /\ failure = [at |-> 2, kind |-> "rejected"]
    /\ Len(generated_sqls) = 1
    /\ Len(calls) = 2

\* C6 as stated: when statement k fails validation or fails in the store, the error
\* reported to the caller names index k.
C6_ErrorNamesIndex ==
    (ExecuteRequest /\ Done /\ failure.kind \in {"validation", "store"}) =>
        /\ response.status = 500
        /\ store = store_before
        /\ "index" \in DOMAIN response.body.error
        /\ response.body.error.index = failure.at

\* C6 amended: when statement k fails validation or fails in the store, nothing of
\* the batch is committed and the response is 500 with {error} alone, whose message
\* carries the text of the exception: for a validation failure the text of the
\* failing statement, which first occurs in the batch at k, and for a store failure
\* the store's error; the handler adds no position.
C6_ErrorCarriesCause ==
    (ExecuteRequest /\ Done /\ failure.kind \in {"validation", "store"}) =>
        /\ response.status = 500
        /\ store = store_before
        /\ DOMAIN response.body = {"error"}
        /\ DOMAIN response.body.error = {"msg", "e"}
        /\ response.body.error.e = exc
        /\ failure.kind = "validation" =>
              /\ exc.type = "ValueError"
              /\ exc.sql = sql_queries[failure.at]
              /\ \A j \in 1..(failure.at - 1) : sql_queries[j] # exc.sql
        /\ failure.kind = "store" => exc = StoreError

\* C6 witness: a batch of three whose second statement fails in the store.
C6_Witness ==
    /\ ExecuteRequest /\ Done
    /\ Len(sql_queries) = 3
    /\ failure = [at |-> 2, kind |-> "store"]
    /\ store = store_before
    /\ response.status = 500

\* C7: when a directory-listing or execute-batch request has finished, the
\* connection it opened is not open, and every connection opened was closed or lost.
C7_ConnectionReleased ==
    (Done /\ handler \in {"get_all_employees", "execute_generated_sql"}) =>
        /\ conn # "open"
        /\ OpCount("connect") = OpCount("close") + (IF conn = "lost" THEN 1 ELSE 0)

\* C7 witness: an execute-batch request whose commit failed, finished with its
\* connection closed.
C7_Witness ==
    /\ Done /\ handler = "execute_generated_sql"
    /\ failure.kind = "commit"
    /\ conn = "closed"
    /\ OpCount("connect") = 1 /\ OpCount("close") = 1

RequiredKeys ==
    {"all_employee_ids", "present_employee_ids", "meeting_time_str", "meeting_date",
     "inserted_by_id"}

\* C8: a draft-generation request that lacks a required field is finished with 400
\* and no call to the generation service.
C8_MissingFieldIs400 ==
    (GenerateRequest /\ \E key \in RequiredKeys : key \notin DOMAIN request_json.data) =>
        /\ Done
        /\ response.status = 400
        /\ calls = <<>>

\* C8 witness: only inserted_by_id is missing.
C8_Witness ==
    /\ GenerateRequest /\ Done
    /\ DOMAIN request_json.data = RequiredKeys \ {"inserted_by_id"}
    /\ TruthyList(all_employee_ids) /\ TruthyList(present_employee_ids)
    /\ response.status = 400
    /\ calls = <<>>

\* C9: an execute-batch request whose sql_queries is empty or absent touches no store:
\* no connection, no statement, no commit, no rollback; a request with a JSON object
\* as body is finished with 400.
C9_EmptyBatchIs400 ==
    (handler = "execute_generated_sql" /\ sql_queries = <<>>) =>
        /\ dbops = <<>>
        /\ conn = "None"
        /\ store = store_before /\ pending = <<>>
        /\ request_json.kind = "object" => Done /\ response.status = 400

\* C9 witness: sql_queries is present and empty.
C9_Witness ==
    /\ ExecuteRequest /\ Done
    /\ "sql_queries" \in DOMAIN request_json.data
    /\ sql_queries = <<>>
    /\ response.status = 400
    /\ dbops = <<>>

\* C10: no exception leaves a handler; a request that failed, or whose body is
\* absent or no JSON object, is finished with a response carrying {error}.
C10_NoExceptionEscapes ==
    Done =>
        /\ escaped = "none"
        /\ (failure # NoFailure \/ (handler # "get_all_employees" /\ request_json.kind # "object")) =>
              /\ response.status \in {400, 500}
              /\ DOMAIN response.body = {"error"}

====
